---- MODULE Spec2Model ----
(***************************************************************************)
(* Model of src/src/analysis.py: the geometry normaliser parse_geometry,   *)
(* the epoch classifier get_epoch and the pipeline driver main (loading,   *)
(* geometry processing, filtering, statistics, export).                    *)
(*                                                                         *)
(* Python values are tagged records:                                       *)
(*   [tag |-> "none"]                 None / NaN / pd.NA (a missing value)  *)
(*   [tag |-> "num", m |-> i, s |-> k] the float i * 10^(-k), normalised    *)
(*   [tag |-> "str", s |-> chars]      a str, as a sequence of characters   *)
(*   [tag |-> "list", e |-> elems]     a list of values                     *)
(*   [tag |-> "tuple", e |-> elems]    a tuple of values                    *)
(* A call either returns a value or raises:                                *)
(*   [kind |-> "pair", x |-> num, y |-> num]   a pair of floats             *)
(*   [kind |-> "absent"]                       the pair (None, None)        *)
(*   [kind |-> "label", v |-> string]          an epoch label               *)
(*   [kind |-> "raise", exc |-> name]          an exception propagates      *)
(***************************************************************************)
EXTENDS Integers, Sequences, FiniteSets

VARIABLES
    mode,        \* which entry point runs: "main", "geometry" or "epoch"
    input,       \* the argument of the helper under test
    parts,       \* how the argument was built: <<A, B>> of "POINT (A B)", else <<>>
    result,      \* what the helper returned or raised, or the exception that
                 \* ended main; NotRun before
    pc,          \* position in main, or "call" / "returned" for a helper
    df,          \* main's df: None, or [src, cols, rows]
    live,        \* outcome of the live download: "pending", "ok", "status", "exception"
    csv_read,    \* pd.read_csv was called
    df_clean,    \* main's df_clean: the filtered rows with their epoche
    stats,       \* main's total_trees, top_species and avg_age
    exit_status, \* the process's exit status; -1 while it runs
    report       \* output/index.html has been written

vars == <<mode, input, parts, result, pc, df, live, csv_read, df_clean, stats,
          exit_status, report>>

-----------------------------------------------------------------------------
(* Bounds of the model *)

\* longest numeric literal enumerated inside "POINT (A B)"
MaxLit == 3

\* largest mantissa of an enumerated list coordinate (in tenths)
MaxCoord == 12

\* years enumerated on each side of the epoch boundaries
YearSpan == 30

\* most rows of a loaded data frame
MaxRows == 2

-----------------------------------------------------------------------------
(* Python values *)

None == [tag |-> "none"]
NotRun == [kind |-> "notrun"]
Absent == [kind |-> "absent"]
Raise(e) == [kind |-> "raise", exc |-> e]
Pair(a, b) == [kind |-> "pair", x |-> a, y |-> b]
Label(l) == [kind |-> "label", v |-> l]
Str(cs) == [tag |-> "str", s |-> cs]
List(es) == [tag |-> "list", e |-> es]
Tuple(es) == [tag |-> "tuple", e |-> es]

RECURSIVE Pow10(_)
Pow10(k) == IF k = 0 THEN 1 ELSE 10 * Pow10(k - 1)

\* the float m * 10^(-s), with trailing zeros of the fraction removed, so that
\* equal floats are equal records
RECURSIVE Num(_, _)
Num(m, s) ==
    IF s > 0 /\ m % 10 = 0 THEN Num(m \div 10, s - 1)
    ELSE [tag |-> "num", m |-> m, s |-> s]

Digits == {"0", "1", "2", "3", "4", "5", "6", "7", "8", "9"}

DigitVal(c) ==
    CASE c = "0" -> 0 [] c = "1" -> 1 [] c = "2" -> 2 [] c = "3" -> 3
      [] c = "4" -> 4 [] c = "5" -> 5 [] c = "6" -> 6 [] c = "7" -> 7
      [] c = "8" -> 8 [] c = "9" -> 9

Sub(s, a, b) == IF a > b THEN <<>> ELSE SubSeq(s, a, b)

\* the value of the digits of t, its decimal points skipped
RECURSIVE DigitsVal(_)
DigitsVal(t) ==
    IF t = <<>> THEN 0
    ELSE IF t[Len(t)] = "." THEN DigitsVal(Sub(t, 1, Len(t) - 1))
    ELSE 10 * DigitsVal(Sub(t, 1, Len(t) - 1)) + DigitVal(t[Len(t)])

Count(t, cs) == Cardinality({i \in 1..Len(t) : t[i] \in cs})

FirstIn(t, cs) ==
    IF \E i \in 1..Len(t) : t[i] \in cs
    THEN CHOOSE i \in 1..Len(t) : t[i] \in cs /\ \A j \in 1..(i - 1) : t[j] \notin cs
    ELSE 0

\* float(str): Python's decimal float grammar, [sign] digits-with-one-point
\* [e [sign] digits]. Whitespace, underscores, "inf" and "nan" are not in any
\* enumerated literal. A string outside the grammar raises ValueError.
StrToFloat(t) ==
    LET signed == t # <<>> /\ t[1] \in {"+", "-"}
        neg == t # <<>> /\ t[1] = "-"
        u == IF signed THEN Tail(t) ELSE t
        ep == FirstIn(u, {"e", "E"})
        mant == IF ep = 0 THEN u ELSE Sub(u, 1, ep - 1)
        ex == IF ep = 0 THEN <<>> ELSE Sub(u, ep + 1, Len(u))
        exsigned == ex # <<>> /\ ex[1] \in {"+", "-"}
        exdig == IF exsigned THEN Tail(ex) ELSE ex
        mantOk == /\ \A i \in 1..Len(mant) : mant[i] \in Digits \cup {"."}
                  /\ Count(mant, {"."}) <= 1
                  /\ Count(mant, Digits) >= 1
        exOk == \/ ep = 0
                \/ exdig # <<>> /\ \A i \in 1..Len(exdig) : exdig[i] \in Digits
        dot == FirstIn(mant, {"."})
        frac == IF dot = 0 THEN 0 ELSE Len(mant) - dot
        e == IF ep = 0 THEN 0
             ELSE IF ex[1] = "-" THEN 0 - DigitsVal(exdig) ELSE DigitsVal(exdig)
        mag == DigitsVal(mant)
        sgn == IF neg THEN 0 - 1 ELSE 1
    IN  IF mantOk /\ exOk
        THEN IF e >= frac
             THEN [ok |-> TRUE, v |-> Num(sgn * mag * Pow10(e - frac), 0)]
             ELSE [ok |-> TRUE, v |-> Num(sgn * mag, frac - e)]
        ELSE [ok |-> FALSE, exc |-> "ValueError"]

\* float(v) for any value: a float is itself, a str is parsed, None and the
\* containers raise TypeError
ToFloat(v) ==
    CASE v.tag = "num" -> [ok |-> TRUE, v |-> v]
      [] v.tag = "str" -> StrToFloat(v.s)
      [] OTHER -> [ok |-> FALSE, exc |-> "TypeError"]

-----------------------------------------------------------------------------
(* parse_geometry, analysis.py lines 10-33 *)

POINT_OPEN == <<"P", "O", "I", "N", "T", " ", "(">>

\* a pattern whose character class is [\d] alone, the point forgotten
CoordClassNoPoint == Digits

\* the character class [\d\.] of the pattern
CoordClass == Digits \cup {"."}

\* the end of the longest run of class characters starting at i (i - 1 if none):
\* what the greedy [\d\.]+ consumes, since the character the pattern wants next
\* is outside the class
RECURSIVE RunEnd(_, _)
RunEnd(t, i) ==
    IF i <= Len(t) /\ t[i] \in CoordClass THEN RunEnd(t, i + 1) ELSE i - 1

\* the pattern POINT \(([\d\.]+) ([\d\.]+)\) matches with "POINT (" at i
MatchAt(t, i) ==
    LET a == i + Len(POINT_OPEN)
        ae == RunEnd(t, a)
        b == ae + 2
        be == RunEnd(t, b)
    IN  /\ i + Len(POINT_OPEN) - 1 <= Len(t)
        /\ Sub(t, i, i + Len(POINT_OPEN) - 1) = POINT_OPEN
        /\ ae >= a
        /\ ae + 1 <= Len(t) /\ t[ae + 1] = " "
        /\ be >= b
        /\ be + 1 <= Len(t) /\ t[be + 1] = ")"

\* re.search: the leftmost match and its two groups, or no match
ReSearch(t) ==
    IF \E i \in 1..Len(t) : MatchAt(t, i)
    THEN LET i == CHOOSE k \in 1..Len(t) :
                      MatchAt(t, k) /\ \A j \in 1..(k - 1) : ~MatchAt(t, j)
             a == i + Len(POINT_OPEN)
             ae == RunEnd(t, a)
         IN  [found |-> TRUE, g1 |-> Sub(t, a, ae),
              g2 |-> Sub(t, ae + 2, RunEnd(t, ae + 2))]
    ELSE [found |-> FALSE]

\* return float(a), float(b): the first conversion that fails raises
FloatPair(a, b) ==
    LET fa == ToFloat(a)
        fb == ToFloat(b)
    IN  IF ~fa.ok THEN Raise(fa.exc)
        ELSE IF ~fb.ok THEN Raise(fb.exc)
        ELSE Pair(fa.v, fb.v)

\* parse_geometry with the list test written len(data) > 2
parse_geometry_long_list(data) ==
    IF data.tag = "list" /\ Len(data.e) > 2
    THEN FloatPair(data.e[1], data.e[2])
    ELSE IF data.tag = "str"
    THEN LET match == ReSearch(data.s)
         IN  IF match.found THEN FloatPair(Str(match.g1), Str(match.g2))
             ELSE Absent
    ELSE Absent

parse_geometry(data) ==
    IF data.tag = "list" /\ Len(data.e) >= 2
    THEN FloatPair(data.e[1], data.e[2])
    ELSE IF data.tag = "str"
    THEN LET match == ReSearch(data.s)
         IN  IF match.found THEN FloatPair(Str(match.g1), Str(match.g2))
             ELSE Absent
    ELSE Absent

-----------------------------------------------------------------------------
(* get_epoch, analysis.py lines 36-52 *)

HERITAGE == "Heritage (< 1960)"
EXPANSION == "Expansion (1960-1990)"
MODERN == "Modern (> 1990)"
UNKNOWN == "Unknown"

EXPANSION_FROM == 1960
MODERN_FROM == 1990

\* v < k for a float v and an integer k
NumLt(v, k) == v.m < k * Pow10(v.s)

\* `if pd.isna(year):` - a scalar gives a bool; a list gives an array of bools,
\* and the truth value of an array of two or more elements raises ValueError;
\* every other object (a str, a tuple) is not missing
IsNaTest(year) ==
    CASE year.tag = "none" -> [ok |-> TRUE, v |-> TRUE]
      [] year.tag = "list" /\ Len(year.e) >= 2 -> [ok |-> FALSE, exc |-> "ValueError"]
      [] year.tag = "list" /\ Len(year.e) = 1 ->
            [ok |-> TRUE, v |-> year.e[1].tag = "none"]
      [] OTHER -> [ok |-> TRUE, v |-> FALSE]

\* the branches on y = float(year), lines 45-50
EpochOf(y) ==
    IF NumLt(y, EXPANSION_FROM) THEN HERITAGE
    ELSE IF ~NumLt(y, EXPANSION_FROM) /\ NumLt(y, MODERN_FROM) THEN EXPANSION
    ELSE MODERN

get_epoch(year) ==
    LET na == IsNaTest(year)
        y == ToFloat(year)
    IN  IF ~na.ok THEN Raise(na.exc)
        ELSE IF na.v THEN Label(UNKNOWN)
        ELSE IF ~y.ok THEN Label(UNKNOWN)
        ELSE Label(EpochOf(y.v))

-----------------------------------------------------------------------------
(* Arguments enumerated for the two helpers *)

RECURSIVE SeqsUpTo(_, _)
\* the non-empty sequences over cs of length at most n
SeqsUpTo(cs, n) ==
    IF n = 0 THEN {}
    ELSE LET shorter == SeqsUpTo(cs, n - 1)
         IN  {<<c>> : c \in cs} \cup shorter
                \cup {Append(t, c) : t \in shorter, c \in cs}

\* candidate numeric literals: digits, points and signs, and two with an exponent
Literals ==
    SeqsUpTo({"0", "1", ".", "-"}, MaxLit)
        \cup {<<"1", "e", "2">>, <<"+", "1">>, <<"2", "5">>}

Wkt(a, b) == POINT_OPEN \o a \o <<" ">> \o b \o <<")">>

DigitChar(d) ==
    CASE d = 0 -> "0" [] d = 1 -> "1" [] d = 2 -> "2" [] d = 3 -> "3"
      [] d = 4 -> "4" [] d = 5 -> "5" [] d = 6 -> "6" [] d = 7 -> "7"
      [] d = 8 -> "8" [] d = 9 -> "9"

RECURSIVE NatChars(_)
NatChars(n) ==
    IF n < 10 THEN <<DigitChar(n)>> ELSE Append(NatChars(n \div 10), DigitChar(n % 10))

RECURSIVE Padded(_, _)
\* the k low digits of n, zeros kept
Padded(n, k) ==
    IF k = 0 THEN <<>> ELSE Append(Padded(n \div 10, k - 1), DigitChar(n % 10))

\* str(v) of a float v of moderate size: sign, integer part, point, fraction
\* ("2.0", "-1.5", "0.3")
FloatStr(v) ==
    LET mag == IF v.m < 0 THEN 0 - v.m ELSE v.m
        p == Pow10(v.s)
    IN  (IF v.m < 0 THEN <<"-">> ELSE <<>>)
            \o NatChars(mag \div p) \o <<".">>
            \o (IF v.s = 0 THEN <<"0">> ELSE Padded(mag % p, v.s))

Coords == {Num(m, 1) : m \in (0 - MaxCoord)..MaxCoord}

NOT_A_NUMBER == <<"N", "o", "t", " ", "a", " ", "n", "u", "m", "b", "e", "r">>
INVALID == <<"I", "n", "v", "a", "l", "i", "d">>

GeometryCases ==
    {[input |-> Str(Wkt(a, b)), parts |-> <<a, b>>] : a \in Literals, b \in Literals}
    \cup {[input |-> v, parts |-> <<>>] : v \in
            {List(<<x, y>>) : x \in Coords, y \in Coords}
            \cup {None, Num(5, 0), Str(<<>>), Str(INVALID),
                  Str(<<"P", "O", "I", "N", "T", "(", "1", " ", "2", ")">>),
                  Str(<<"x">> \o Wkt(<<"1">>, <<"2">>) \o <<"y">>),
                  Str(POINT_OPEN \o <<"1", " ", " ", "2", ")">>),
                  Str(Wkt(<<"-", "1">>, <<"1">>) \o <<" ">> \o Wkt(<<"3">>, <<"4">>)),
                  List(<<>>), List(<<Num(123, 0)>>),
                  List(<<Num(1, 0), Num(2, 0), Num(3, 0)>>),
                  List(<<Str(<<"a">>), Str(<<"b">>)>>),
                  List(<<Str(<<"1", ".", "5">>), Str(<<"2">>)>>),
                  List(<<None, None>>),
                  List(<<Num(1, 0), None>>),
                  List(<<List(<<Num(1, 0), Num(2, 0)>>), List(<<Num(3, 0), Num(4, 0)>>)>>),
                  Tuple(<<Num(1, 0), Num(2, 0)>>)}}

EpochInputs ==
    {Num(y, 0) : y \in (EXPANSION_FROM - YearSpan)..(MODERN_FROM + YearSpan)}
    \cup {Num(10 * y + 5, 1) : y \in {EXPANSION_FROM - 1, MODERN_FROM - 1}}
    \cup {None, Str(NOT_A_NUMBER), Str(<<>>),
          Str(<<"1", "9", "5", "9">>), Str(<<"1", "9", "6", "0">>),
          Str(<<"1", "9", "8", "9">>), Str(<<"1", "9", "9", "0">>),
          Str(<<"1", "9", "5", "9", ".", "9">>), Str(<<"-", "5">>),
          List(<<Num(1950, 0)>>), List(<<None>>),
          List(<<Num(1950, 0), Num(1960, 0)>>),
          Tuple(<<Num(1950, 0), Num(1960, 0)>>)}

-----------------------------------------------------------------------------
(* The helpers called on their own, as tests/test_analysis.py calls them *)

NoFrame == [src |-> "none", cols |-> {}, rows |-> <<>>]
NoStats == [total_trees |-> 0, top_species |-> None, avg_age |-> None]

MainIdle ==
    /\ df = NoFrame
    /\ live = "pending"
    /\ csv_read = FALSE
    /\ df_clean = <<>>
    /\ stats = NoStats
    /\ exit_status = 0 - 1
    /\ report = FALSE

MainUnchanged == UNCHANGED <<df, live, csv_read, df_clean, stats, exit_status, report>>

InitGeometry ==
    /\ mode = "geometry"
    /\ pc = "call"
    /\ \E c \in GeometryCases : input = c.input /\ parts = c.parts
    /\ result = NotRun
    /\ MainIdle

InitEpoch ==
    /\ mode = "epoch"
    /\ pc = "call"
    /\ input \in EpochInputs
    /\ parts = <<>>
    /\ result = NotRun
    /\ MainIdle

CallParseGeometry ==
    /\ mode = "geometry"
    /\ pc = "call"
    /\ result' = parse_geometry(input)
    /\ pc' = "returned"
    /\ UNCHANGED <<mode, input, parts>>
    /\ MainUnchanged

CallGetEpoch ==
    /\ mode = "epoch"
    /\ pc = "call"
    /\ result' = get_epoch(input)
    /\ pc' = "returned"
    /\ UNCHANGED <<mode, input, parts>>
    /\ MainUnchanged

SpecGeometry == InitGeometry /\ [][CallParseGeometry]_vars

SpecEpoch == InitEpoch /\ [][CallGetEpoch]_vars

-----------------------------------------------------------------------------
(* Properties of parse_geometry, checked under SpecGeometry *)

GeometryReturned == mode = "geometry" /\ pc = "returned"

IsFloat(v) == v.tag = "num"

\* C1: parse_geometry is total - for every argument it returns a pair of two
\* floats or the absent pair (None, None), and it never raises.
C1_Total ==
    GeometryReturned =>
        \/ result = Absent
        \/ result.kind = "pair" /\ IsFloat(result.x) /\ IsFloat(result.y)

\* an unsigned decimal literal: ASCII digits with at most one decimal point
UnsignedDecimal(t) ==
    /\ \A i \in 1..Len(t) : t[i] \in Digits \cup {"."}
    /\ Count(t, {"."}) <= 1
    /\ Count(t, Digits) >= 1

\* C6 as stated: for every string "POINT (A B)" whose A and B float() accepts
\* (signed literals included), parse_geometry returns (float(A), float(B)).
C6_RoundTripAnyLiteral ==
    (GeometryReturned /\ parts # <<>>
        /\ StrToFloat(parts[1]).ok /\ StrToFloat(parts[2]).ok)
    => result = Pair(StrToFloat(parts[1]).v, StrToFloat(parts[2]).v)

\* C6 amended: for every string "POINT (A B)" whose A and B are unsigned decimal
\* literals, parse_geometry returns (float(A), float(B)), not the absent pair.
C6_RoundTripUnsigned ==
    (GeometryReturned /\ parts # <<>>
        /\ UnsignedDecimal(parts[1]) /\ UnsignedDecimal(parts[2]))
    => result = Pair(StrToFloat(parts[1]).v, StrToFloat(parts[2]).v)

C6_Witness ==
    /\ GeometryReturned
    /\ parts = << <<"1", ".", "1">>, <<".", "1">> >>
    /\ result = Pair(Num(11, 1), Num(1, 1))

IsCoordList(v) ==
    v.tag = "list" /\ Len(v.e) = 2 /\ IsFloat(v.e[1]) /\ IsFloat(v.e[2])

\* the WKT string "POINT (x y)" of the coordinate list [x, y]
WktOfList(v) == Str(Wkt(FloatStr(v.e[1]), FloatStr(v.e[2])))

\* C7 as stated: for every coordinate pair (x, y), the string "POINT (x y)"
\* and the list [x, y] parse to the same coordinate.
C7_FormatEquivalence ==
    (GeometryReturned /\ IsCoordList(input))
    => parse_geometry(WktOfList(input)) = result

\* C7 amended: for every pair of non-negative coordinates, whose string form
\* is digits with a decimal point, the string "POINT (x y)" and the list
\* [x, y] parse to the same pair of floats.
C7_FormatEquivalenceNonNegative ==
    (GeometryReturned /\ IsCoordList(input)
        /\ input.e[1].m >= 0 /\ input.e[2].m >= 0)
    => /\ result = Pair(input.e[1], input.e[2])
       /\ parse_geometry(WktOfList(input)) = result

C7_Witness ==
    /\ GeometryReturned
    /\ input = List(<<Num(5, 1), Num(12, 1)>>)
    /\ WktOfList(input) = Str(Wkt(<<"0", ".", "5">>, <<"1", ".", "2">>))
    /\ result = Pair(Num(5, 1), Num(12, 1))

-----------------------------------------------------------------------------
(* Properties of get_epoch, checked under SpecEpoch *)

EpochReturned == mode = "epoch" /\ pc = "returned"

\* C2: get_epoch is total and boundary-exact - it never raises; a missing year
\* or one that does not convert to a number gives Unknown; otherwise a year
\* below 1960 gives Heritage, one from 1960 and below 1990 Expansion, and one
\* from 1990 Modern.
C2_TotalAndExact ==
    EpochReturned =>
        LET y == ToFloat(input)
        IN  /\ result.kind = "label"
            /\ result.v \in {HERITAGE, EXPANSION, MODERN, UNKNOWN}
            /\ (input = None \/ ~y.ok) => result.v = UNKNOWN
            /\ (input # None /\ y.ok) =>
                    result.v = IF y.v.m < 1960 * Pow10(y.v.s) THEN HERITAGE
                               ELSE IF y.v.m < 1990 * Pow10(y.v.s) THEN EXPANSION
                               ELSE MODERN

\* the boundary years of C2 are classified as the claim says
C2_Boundaries ==
    (EpochReturned /\ input \in {Num(1959, 0), Num(1960, 0), Num(1989, 0), Num(1990, 0)})
    => result = Label(CASE input = Num(1959, 0) -> HERITAGE
                        [] input = Num(1960, 0) -> EXPANSION
                        [] input = Num(1989, 0) -> EXPANSION
                        [] input = Num(1990, 0) -> MODERN)

-----------------------------------------------------------------------------
(* main, analysis.py lines 57-188: the data it loads *)

FILTER_FROM == 1800
FILTER_TO == 2025
AGE_REFERENCE_YEAR == 2026

Acer == Str(<<"A", "c", "e", "r">>)
Tilia == Str(<<"T", "i", "l", "i", "a">>)
Ahorn == Str(<<"A", "h", "o", "r", "n">>)
UnknownSpecies == Str(<<"U", "n", "k", "n", "o", "w", "n">>)

\* the column sets of a loaded frame: json_normalize of an empty feature list
\* has no columns; otherwise pflanzjahr, with or without the geometry and the
\* species-name columns
ColumnSets ==
    {{}, {"pflanzjahr"}, {"pflanzjahr", "baumnamelat"}}
    \cup {{"pflanzjahr", "geometry"} \cup sp :
            sp \in SUBSET {"baumnamelat", "baumnamedeu"}}

Years == {None, Num(FILTER_FROM, 0), Num(FILTER_FROM + 1, 0), Num(EXPANSION_FROM, 0),
          Num(FILTER_TO, 0), Num(FILTER_TO + 1, 0)}

\* geometry cells: the live source gives coordinate lists, the CSV gives WKT text
GoodGeometry(src) ==
    IF src = "live" THEN List(<<Num(26832455, 1), Num(12478901, 1)>>)
    ELSE Str(Wkt(<<"2", "6", "8", "3">>, <<"1", "2", "4", "7", ".", "5">>))

BadGeometry(src) ==
    IF src = "live" THEN List(<<None, None>>)
    ELSE Str(Wkt(<<"1", ".", "2", ".", "3">>, <<"4">>))

Cell(cols, name, v) == IF name \in cols THEN v ELSE None

RawRow(cols, year, geometry, lat, deu) ==
    [pflanzjahr |-> Cell(cols, "pflanzjahr", year),
     geometry |-> Cell(cols, "geometry", geometry),
     baumnamelat |-> Cell(cols, "baumnamelat", lat),
     baumnamedeu |-> Cell(cols, "baumnamedeu", deu),
     x_coord |-> None, y_coord |-> None]

\* the rows enumerated for a frame: every year with and without a geometry, the
\* species-name cells varied on a row the filter keeps, and one row whose
\* geometry cell makes float() raise
RowsOf(src, cols) ==
    {RawRow(cols, y, g, Acer, Ahorn) : y \in Years, g \in {None, GoodGeometry(src)}}
    \cup {RawRow(cols, Num(1950, 0), GoodGeometry(src), lat, deu) :
            lat \in {None, Acer, Tilia}, deu \in {None, Ahorn}}
    \cup {RawRow(cols, Num(1950, 0), BadGeometry(src), Acer, Ahorn)}

RECURSIVE RowSeqs(_, _)
\* the sequences of at most n rows
RowSeqs(rs, n) ==
    IF n = 0 THEN {<<>>}
    ELSE LET shorter == RowSeqs(rs, n - 1)
         IN  shorter \cup {Append(t, r) : t \in shorter, r \in rs}

\* the frames a source can deliver with the columns cols. A live frame takes
\* its columns from its features, so it has rows if it has columns; a CSV of a
\* header line alone has columns and no rows.
FramesWith(src, cols) ==
    {[src |-> src, cols |-> cols, rows |-> rows] :
        rows \in IF cols = {} THEN {<<>>}
                 ELSE RowSeqs(RowsOf(src, cols), MaxRows)
                        \ (IF src = "live" THEN {<<>>} ELSE {})}

Frames(src) == UNION {FramesWith(src, cols) : cols \in ColumnSets}

-----------------------------------------------------------------------------
(* main: its steps *)

\* an exception nothing catches ends the process with status 1; result keeps
\* the exception and the step that raised it
Crash(exc) ==
    /\ pc' = "crashed"
    /\ result' = [kind |-> "raise", exc |-> exc, at |-> pc]
    /\ exit_status' = 1

\* lines 70-99: the live download. requests.get or the JSON handling raises
\* (except: df = None), the status is not 200 (df stays None), or the
\* features are normalised into df
LiveDownload ==
    /\ mode = "main"
    /\ pc = "download"
    /\ \/ /\ live' = "exception"
          /\ df' = NoFrame
       \/ /\ live' = "status"
          /\ df' = NoFrame
       \/ /\ live' = "ok"
          /\ df' \in Frames("live")
    /\ pc' = "fallback"
    /\ UNCHANGED <<mode, input, parts, result, csv_read, df_clean, stats,
                   exit_status, report>>

\* a fallback that reads the local CSV whenever the file exists, whether or not
\* the download gave a frame
FallbackAlwaysReads ==
    /\ mode = "main"
    /\ pc = "fallback"
    /\ \/ /\ df' \in Frames("csv")
          /\ csv_read' = TRUE
          /\ pc' = "geometry"
          /\ UNCHANGED exit_status
       \/ /\ df = NoFrame
          /\ exit_status' = 1
          /\ pc' = "exited"
          /\ UNCHANGED <<df, csv_read>>
       \/ /\ df # NoFrame
          /\ pc' = "geometry"
          /\ UNCHANGED <<df, csv_read, exit_status>>
    /\ UNCHANGED <<mode, input, parts, result, live, df_clean, stats, report>>

\* lines 101-108: the local CSV is read if df is None and the file exists;
\* with neither, exit(1)
Fallback ==
    /\ mode = "main"
    /\ pc = "fallback"
    /\ IF df = NoFrame
       THEN \/ /\ df' \in Frames("csv")
               /\ csv_read' = TRUE
               /\ pc' = "geometry"
               /\ UNCHANGED exit_status
            \/ /\ exit_status' = 1
               /\ pc' = "exited"
               /\ UNCHANGED <<df, csv_read>>
       ELSE /\ pc' = "geometry"
            /\ UNCHANGED <<df, csv_read, exit_status>>
    /\ UNCHANGED <<mode, input, parts, result, live, df_clean, stats, report>>

\* the coordinates of row r as parse_geometry gives them
WithCoords(r) ==
    LET c == parse_geometry(r.geometry)
    IN  IF c.kind = "pair" THEN [r EXCEPT !.x_coord = c.x, !.y_coord = c.y]
        ELSE [r EXCEPT !.x_coord = None, !.y_coord = None]

\* lines 113-119: with a geometry column, parse every cell and assign the two
\* coordinate columns. A cell on which parse_geometry raises ends the run; so
\* does a frame of no rows, whose coords frame has no columns to assign.
ProcessGeometry ==
    /\ mode = "main"
    /\ pc = "geometry"
    /\ IF "geometry" \in df.cols
       THEN LET raising == {i \in 1..Len(df.rows) :
                                parse_geometry(df.rows[i].geometry).kind = "raise"}
            IN  IF raising # {}
                THEN /\ Crash(parse_geometry(df.rows[
                            CHOOSE i \in raising : \A j \in raising : i <= j].geometry).exc)
                     /\ UNCHANGED df
                ELSE IF df.rows = <<>>
                THEN /\ Crash("ValueError")
                     /\ UNCHANGED df
                ELSE /\ df' = [df EXCEPT
                                !.cols = @ \cup {"x_coord", "y_coord"},
                                !.rows = [i \in 1..Len(df.rows) |-> WithCoords(df.rows[i])]]
                     /\ pc' = "filter"
                     /\ UNCHANGED <<result, exit_status>>
       ELSE /\ pc' = "filter"
            /\ UNCHANGED <<df, result, exit_status>>
    /\ UNCHANGED <<mode, input, parts, live, csv_read, df_clean, stats, report>>

\* v > k and v <= k for a cell v of a numeric column; a missing cell compares False
CellGt(v, k) == v # None /\ v.m > k * Pow10(v.s)
CellLe(v, k) == v # None /\ v.m <= k * Pow10(v.s)

\* a mask that keeps the lower bound itself (>= 1800)
FilterMaskFromInclusive(r) ==
    /\ (r.pflanzjahr # None /\ r.pflanzjahr.m >= FILTER_FROM * Pow10(r.pflanzjahr.s))
    /\ CellLe(r.pflanzjahr, FILTER_TO)
    /\ r.x_coord # None

\* a mask that forgets the coordinate test
FilterMaskNoCoord(r) ==
    /\ CellGt(r.pflanzjahr, FILTER_FROM)
    /\ CellLe(r.pflanzjahr, FILTER_TO)

\* the boolean mask of lines 122-126
FilterMask(r) ==
    /\ CellGt(r.pflanzjahr, FILTER_FROM)
    /\ CellLe(r.pflanzjahr, FILTER_TO)
    /\ r.x_coord # None

\* a row of df_clean: the row of df with its index label, and its epoche
CleanRow(i, r) ==
    [idx |-> i, pflanzjahr |-> r.pflanzjahr, geometry |-> r.geometry,
     baumnamelat |-> r.baumnamelat, baumnamedeu |-> r.baumnamedeu,
     x_coord |-> r.x_coord, y_coord |-> r.y_coord,
     epoche |-> get_epoch(r.pflanzjahr)]

RECURSIVE KeptFrom(_, _)
\* the rows from index i on that the mask keeps, in order
KeptFrom(rows, i) ==
    IF i > Len(rows) THEN <<>>
    ELSE (IF FilterMask(rows[i]) THEN <<CleanRow(i, rows[i])>> ELSE <<>>)
            \o KeptFrom(rows, i + 1)

\* lines 121-129: df_clean is the rows the mask keeps, each given its epoche.
\* A missing pflanzjahr or x_coord column is a KeyError.
Filter ==
    /\ mode = "main"
    /\ pc = "filter"
    /\ IF "pflanzjahr" \notin df.cols \/ "x_coord" \notin df.cols
       THEN /\ Crash("KeyError")
            /\ UNCHANGED df_clean
       ELSE LET kept == KeptFrom(df.rows, 1)
                raising == {i \in 1..Len(kept) : kept[i].epoche.kind = "raise"}
            IN  IF raising # {}
                THEN /\ Crash("ValueError")
                     /\ UNCHANGED df_clean
                ELSE /\ df_clean' = [i \in 1..Len(kept) |->
                                        [kept[i] EXCEPT !.epoche = kept[i].epoche.v]]
                     /\ pc' = "statistics"
                     /\ UNCHANGED <<result, exit_status>>
    /\ UNCHANGED <<mode, input, parts, df, live, csv_read, stats, report>>

\* characters of the species names in code-point order
CODE_ORDER == <<"A", "T", "U", "a", "c", "e", "h", "i", "k", "l", "n", "o", "r", "w">>

CharOrd(c) == CHOOSE i \in 1..Len(CODE_ORDER) : CODE_ORDER[i] = c

\* a < b for two strs
RECURSIVE StrLess(_, _)
StrLess(a, b) ==
    IF b = <<>> THEN FALSE
    ELSE IF a = <<>> THEN TRUE
    ELSE IF a[1] = b[1] THEN StrLess(Tail(a), Tail(b))
    ELSE CharOrd(a[1]) < CharOrd(b[1])

\* Series.mode(): the most frequent non-missing values, sorted; none for a
\* column with no value
Modes(cells) ==
    LET present == {cells[i] : i \in 1..Len(cells)} \ {None}
        n(v) == Cardinality({i \in 1..Len(cells) : cells[i] = v})
    IN  {v \in present : \A w \in present : n(w) <= n(v)}

\* .mode()[0]: the first of the sorted modes; KeyError when there is none
ModeFirst(cells) ==
    LET ms == Modes(cells)
    IN  IF ms = {} THEN [ok |-> FALSE, exc |-> "KeyError"]
        ELSE [ok |-> TRUE,
              v |-> CHOOSE v \in ms : \A w \in ms \ {v} : StrLess(v.s, w.s)]

\* lines 135-141: the fallback over the species-name columns
TopSpecies(cols, clean) ==
    IF "baumnamelat" \in cols
    THEN ModeFirst([i \in 1..Len(clean) |-> clean[i].baumnamelat])
    ELSE IF "baumnamedeu" \in cols
    THEN ModeFirst([i \in 1..Len(clean) |-> clean[i].baumnamedeu])
    ELSE [ok |-> TRUE, v |-> UnknownSpecies]

RECURSIVE YearSum(_)
YearSum(clean) ==
    IF clean = <<>> THEN 0
    ELSE clean[1].pflanzjahr.m + YearSum(Tail(clean))

NaN == [tag |-> "nan"]
Ratio(p, q) == [tag |-> "ratio", num |-> p, den |-> q]

\* the reference year minus the column mean, as an exact fraction; the mean of
\* an empty column is NaN
AgeFrom(reference, clean) ==
    IF clean = <<>> THEN NaN
    ELSE Ratio(reference * Len(clean) - YearSum(clean), Len(clean))

\* line 144
AvgAge(clean) == AgeFrom(AGE_REFERENCE_YEAR, clean)

\* lines 131-152: total_trees, top_species, avg_age and the summary text
Statistics ==
    /\ mode = "main"
    /\ pc = "statistics"
    /\ LET top == TopSpecies(df.cols, df_clean)
       IN  IF ~top.ok
           THEN /\ Crash(top.exc)
                /\ UNCHANGED stats
           ELSE /\ stats' = [total_trees |-> Len(df_clean),
                             top_species |-> top.v,
                             avg_age |-> AvgAge(df_clean)]
                /\ pc' = "export"
                /\ UNCHANGED <<result, exit_status>>
    /\ UNCHANGED <<mode, input, parts, df, live, csv_read, df_clean, report>>

\* lines 154-188: the figure is built and written to output/index.html
Export ==
    /\ mode = "main"
    /\ pc = "export"
    /\ report' = TRUE
    /\ exit_status' = 0
    /\ pc' = "done"
    /\ UNCHANGED <<mode, input, parts, result, df, live, csv_read, df_clean, stats>>

Init ==
    /\ mode = "main"
    /\ pc = "download"
    /\ input = None
    /\ parts = <<>>
    /\ result = NotRun
    /\ MainIdle

Next ==
    \/ LiveDownload
    \/ Fallback
    \/ ProcessGeometry
    \/ Filter
    \/ Statistics
    \/ Export

Spec == Init /\ [][Next]_vars

-----------------------------------------------------------------------------
(* Properties of main, checked under Spec *)

Filtered == mode = "main" /\ pc \in {"statistics", "export", "done"}
Summarised == mode = "main" /\ pc \in {"export", "done"}
FailedInStatistics == mode = "main" /\ pc = "crashed" /\ result.at = "statistics"

CleanIdx == {df_clean[i].idx : i \in 1..Len(df_clean)}

\* the inclusion predicate of the claim, with reference year 2025
C3_Include(r) ==
    /\ r.pflanzjahr # None
    /\ r.pflanzjahr.m > 1800 * Pow10(r.pflanzjahr.s)
    /\ r.pflanzjahr.m <= 2025 * Pow10(r.pflanzjahr.s)
    /\ r.x_coord # None /\ r.y_coord # None

\* C3: the filtered collection holds exactly the records whose pflanzjahr is
\* present, with 1800 < pflanzjahr <= 2025, and whose coordinate is present:
\* none of the others is kept, none of these is dropped, each is kept once
\* and unchanged.
C3_FilterExact ==
    Filtered =>
        /\ CleanIdx = {i \in 1..Len(df.rows) : C3_Include(df.rows[i])}
        /\ \A i, j \in 1..Len(df_clean) : i < j => df_clean[i].idx < df_clean[j].idx
        /\ \A i \in 1..Len(df_clean) :
              LET c == df_clean[i]
                  r == df.rows[c.idx]
              IN  /\ c.pflanzjahr = r.pflanzjahr
                  /\ c.x_coord = r.x_coord /\ c.y_coord = r.y_coord
                  /\ c.baumnamelat = r.baumnamelat /\ c.baumnamedeu = r.baumnamedeu

C3_Witness ==
    /\ Filtered
    /\ Len(df.rows) = 2
    /\ df.rows[1].pflanzjahr = Num(1800, 0) /\ df.rows[1].x_coord # None
    /\ df.rows[2].pflanzjahr = Num(2025, 0) /\ df.rows[2].x_coord # None
    /\ CleanIdx = {2}

\* C4: for a non-empty filtered collection, mean_age is the reference year
\* minus the mean pflanzjahr, the reference year being the value that bounds
\* the year filter from above.
C4_SingleReferenceYear ==
    (Summarised /\ df_clean # <<>>)
    => /\ stats.avg_age.tag = "ratio"
       /\ stats.avg_age.num * Len(df_clean)
            = (FILTER_TO * Len(df_clean) - YearSum(df_clean)) * stats.avg_age.den

\* C5: with an empty filtered collection the statistics step completes and
\* reports mean_age as undefined; it does not fail and does not give NaN.
C5_EmptyMeanUndefined ==
    /\ (FailedInStatistics => df_clean # <<>>)
    /\ (Summarised /\ df_clean = <<>>) => stats.avg_age = None

\* the most frequent values of a species-name column of the filtered rows
C8_MostFrequent(cells) ==
    {v \in {cells[i] : i \in 1..Len(cells)} \ {None} :
        \A w \in {cells[i] : i \in 1..Len(cells)} \ {None} :
            Cardinality({i \in 1..Len(cells) : cells[i] = w})
                <= Cardinality({i \in 1..Len(cells) : cells[i] = v})}

\* C8: for every filtered collection, an empty one and one with only missing
\* species cells included, top_species is computed: it is a most frequent
\* value of baumnamelat if that column exists, else of baumnamedeu if that
\* exists, the same one whenever the same values tie, else "Unknown".
C8_TopSpecies ==
    /\ ~FailedInStatistics
    /\ Summarised =>
        LET col == IF "baumnamelat" \in df.cols THEN "baumnamelat"
                   ELSE IF "baumnamedeu" \in df.cols THEN "baumnamedeu"
                   ELSE "none"
            cells == [i \in 1..Len(df_clean) |->
                        IF col = "baumnamelat" THEN df_clean[i].baumnamelat
                        ELSE df_clean[i].baumnamedeu]
        IN  IF col = "none" THEN stats.top_species = UnknownSpecies
            ELSE stats.top_species \in C8_MostFrequent(cells)

\* C9: the local CSV is read only when the download gave no frame; when neither
\* source gives data the process ends with status 1 having processed, computed
\* and written nothing; every later step, and the report, has a frame loaded
\* from exactly one of the two sources.
C9_LoadOrder ==
    mode = "main" =>
        /\ csv_read => live \in {"exception", "status"}
        /\ pc = "exited" =>
              /\ exit_status = 1
              /\ live \in {"exception", "status"} /\ ~csv_read
              /\ df = NoFrame /\ df_clean = <<>> /\ stats = NoStats /\ ~report
        /\ (pc \in {"geometry", "filter", "statistics", "export", "done"} \/ report) =>
              /\ (live = "ok") # csv_read
              /\ df.src = IF csv_read THEN "csv" ELSE "live"
              /\ exit_status # 1
        /\ exit_status = 1 => pc \in {"exited", "crashed"}

C9_Witness ==
    /\ pc = "done" /\ report
    /\ live = "status" /\ csv_read /\ df.src = "csv"

\* C10: every record of the filtered collection has the epoche of its own
\* pflanzjahr, which is Heritage, Expansion or Modern and never Unknown, and
\* has both x_coord and y_coord.
C10_FilteredEnriched ==
    Filtered =>
        \A i \in 1..Len(df_clean) :
            LET c == df_clean[i]
            IN  /\ c.pflanzjahr # None
                /\ c.epoche = get_epoch(c.pflanzjahr).v
                /\ c.epoche = IF c.pflanzjahr.m < 1960 * Pow10(c.pflanzjahr.s) THEN HERITAGE
                              ELSE IF c.pflanzjahr.m < 1990 * Pow10(c.pflanzjahr.s) THEN EXPANSION
                              ELSE MODERN
                /\ c.epoche # UNKNOWN
                /\ c.x_coord # None /\ c.y_coord # None

C10_Witness ==
    /\ Filtered
    /\ Len(df_clean) = 2
    /\ df_clean[1].epoche = HERITAGE /\ df_clean[2].epoche = EXPANSION
    /\ df_clean[1].x_coord = Num(2683, 0) /\ df_clean[1].y_coord = Num(12475, 1)

====
